---- MODULE Spec2Model ----
(***************************************************************************)
(* Model of the amazon_mws module (product.py): the Product extension, the *)
(* Identifier and Account-Link records, the three export operations, the   *)
(* import by seller SKU and the three export wizards.                      *)
(*                                                                         *)
(* Every operation runs inside one host transaction.  A database          *)
(* IntegrityError aborts that transaction, so nothing the operation wrote  *)
(* remains, while the calls it already made to the marketplace are not     *)
(* undone.                                                                 *)
(***************************************************************************)
EXTENDS Integers, Sequences, FiniteSets, Bags

VARIABLES products, identifiers, links, last, wizard

vars == <<products, identifiers, links, last, wizard>>

----------------------------------------------------------------------------
(* Bounds of the model *)

\* most product records in the store
MaxProducts == 2
\* longest product list handed to an export, longest batch handed to create
MaxList == 2

----------------------------------------------------------------------------
(* Values *)

\* amazon.mws.account records (read-only configuration)
Accounts == {"acc1", "acc2"}

\* mws_account.company.currency.code
CurrencyOf(acc) == IF acc = "acc1" THEN "USD" ELSE "EUR"

\* mws_account.default_uom
DefaultUomOf(acc) == IF acc = "acc1" THEN "unit" ELSE "kg"

\* product codes the host user types; "" is a product without code
HostCodes == {"", "A", "B"}

\* seller SKUs asked for on import
Skus == {"A", "B"}

\* a Decimal: digits * 10^(-exp)
Dec(d, e) == [digits |-> d, exp |-> e]

\* Decimal('0.01'), the placeholder price of an imported product
PlaceholderPrice == Dec(1, 2)

\* prices of products the host user creates
HostListPrice == Dec(999, 2)
HostCostPrice == Dec(5, 0)

Pow10(e) == IF e = 0 THEN 1 ELSE IF e = 1 THEN 10 ELSE 100

\* str(Decimal): integer part, "." and exp fractional digits (none if exp = 0)
DecimalStr(d) ==
    [int |-> d.digits \div Pow10(d.exp),
     frac |-> d.digits % Pow10(d.exp),
     places |-> d.exp]

\* identifiers the host user can attach to a product
HostIdents == {[product_id_type |-> "EAN", product_id |-> "E1"],
               [product_id_type |-> "UPC", product_id |-> "U1"]}

\* ASINs the marketplace answers with
Asins == {"B1"}

\* stock quantities (floats), counted in halves: 0, 0.5, 1.5
Quantities == {0, 1, 3}

\* int(quantity): truncation toward zero
IntOf(q) == IF q >= 0 THEN q \div 2 ELSE -((-q) \div 2)

\* parsed acknowledgments of submit_feed
Responses == {[status |-> "_SUBMITTED_", submission_id |-> "F1"],
              [status |-> "_IN_PROGRESS_", submission_id |-> "F2"]}

\* what submit_feed does: raise, or answer
NoResponse == [status |-> "", submission_id |-> ""]

SubmitOutcomes ==
    {[raises |-> TRUE, parsed |-> NoResponse]}
    \cup {[raises |-> FALSE, parsed |-> r] : r \in Responses}

----------------------------------------------------------------------------
(* Sequences *)

SeqsUpTo(S, n) == UNION {[1..k -> S] : k \in 0..n}

\* list.remove(x): drop the first element equal to x
RemoveFirst(s, x) ==
    LET i == CHOOSE k \in 1..Len(s) :
                 s[k] = x /\ \A j \in 1..(k - 1) : s[j] # x
    IN  SubSeq(s, 1, i - 1) \o SubSeq(s, i + 1, Len(s))

Count(s, x) == Cardinality({i \in 1..Len(s) : s[i] = x})

\* the rows of a list, as a bag
SeqToBag(s) == [x \in {s[i] : i \in 1..Len(s)} |-> Count(s, x)]

NoDuplicates(s) == \A i, j \in 1..Len(s) : s[i] = s[j] => i = j

----------------------------------------------------------------------------
(* The store: the product and Identifier tables, where a record's id is its
   index, and the Account-Link table, a bag of rows *)

ProductIds == 1..Len(products)

RECURSIVE IdentifiersFrom(_, _)
IdentifiersFrom(p, i) ==
    IF i > Len(identifiers) THEN <<>>
    ELSE IF identifiers[i].product = p
         THEN <<identifiers[i]>> \o IdentifiersFrom(p, i + 1)
         ELSE IdentifiersFrom(p, i + 1)

\* product.amazon_identifiers, in insertion order
AmazonIdentifiers(p) == IdentifiersFrom(p, 1)

\* [acc.account for acc in product.mws_accounts]
LinkedAccounts(p) == {r.account : r \in {x \in BagToSet(links) : x.product = p}}

\* number of Account-Link records of a (product, account) pair in a table
LinkCount(table, p, acc) == CopiesIn([product |-> p, account |-> acc], table)

\* cls.search([('product', '=', ...), ('account', '=', ...)]) is not empty
LinkExists(vals) == LinkCount(links, vals.product, vals.account) > 0

RECURSIVE SearchByCodeFrom(_, _)
SearchByCodeFrom(code, i) ==
    IF i > Len(products) THEN <<>>
    ELSE IF products[i].code = code
         THEN <<i>> \o SearchByCodeFrom(code, i + 1)
         ELSE SearchByCodeFrom(code, i + 1)

\* cls.search([('code', '=', sku)])
SearchByCode(code) == SearchByCodeFrom(code, 1)

\* UNIQUE(product_id, product_id_type) on the Identifier table
IdentifierUnique(table) ==
    \A i, j \in 1..Len(table) :
        (table[i].product_id = table[j].product_id
         /\ table[i].product_id_type = table[j].product_id_type) => i = j

\* UNIQUE(account, product) on the Account-Link table
AccountProductUnique(table) ==
    \A r \in BagToSet(table) : CopiesIn(r, table) <= 1

----------------------------------------------------------------------------
(* ProductMwsAccount.create *)

RECURSIVE DropExisting(_, _)
\* for vals in vlist: if cls.search(...): vlist.remove(vals)
\* The list iterator is an index into the list that is being shortened:
\* after a removal the index still advances, so the element that moved into
\* the freed slot is never looked at.
DropExisting(vlist, i) ==
    IF i > Len(vlist) THEN vlist
    ELSE IF LinkExists(vlist[i])
         THEN DropExisting(RemoveFirst(vlist, vlist[i]), i + 1)
         ELSE DropExisting(vlist, i + 1)

\* InsertLinks, with the fault that the table has no account_product_unique
\* constraint: every row handed over is inserted (C11)
InsertLinksUnconstrained(vlist) ==
    [raised |-> "none", links |-> links (+) SeqToBag(vlist)]

\* super(ProductMwsAccount, cls).create(vlist): insert the rows; the table's
\* UNIQUE(account, product) constraint rejects the whole batch otherwise
InsertLinks(vlist) ==
    IF AccountProductUnique(links (+) SeqToBag(vlist))
    THEN [raised |-> "none", links |-> links (+) SeqToBag(vlist)]
    ELSE [raised |-> "IntegrityError", links |-> links]

\* ProductMwsAccount.create(vlist)
MwsAccountCreate(vlist) == InsertLinks(DropExisting(vlist, 1))

----------------------------------------------------------------------------
(* The record of the operation being served: what was called, with what,
   what it raised (raised), the calls it made to the marketplace (submits,
   lookups), the feed it submitted and what submit_feed answered (response),
   which is what the operation returns when it raises nothing *)

NoFeed == [feed_type |-> "", MessageType |-> "", PurgeAndReplace |-> "",
           MerchantIdentifier |-> "", messages |-> <<>>]

\* the tables as the operation found them
Before == [products |-> products, identifiers |-> identifiers, links |-> links]

Idle == [op |-> "none", account |-> "", plist |-> <<>>, vlist |-> <<>>,
         sku |-> "", qty |-> <<>>, raised |-> "none", culprit |-> 0,
         submits |-> 0, lookups |-> 0, feed |-> NoFeed,
         response |-> NoResponse, product |-> 0,
         before |-> [products |-> <<>>, identifiers |-> <<>>, links |-> EmptyBag]]

\* mws_account.merchant_id
MerchantOf(acc) == IF acc = "acc1" THEN "M1" ELSE "M2"

\* E.AmazonEnvelope(E.Header(...), E.MessageType(..), E.PurgeAndReplace('false'), *messages)
\* together with the feed_type it is submitted under
Envelope(acc, message_type, feed_type, messages) ==
    [feed_type |-> feed_type, MessageType |-> message_type,
     PurgeAndReplace |-> "false", MerchantIdentifier |-> MerchantOf(acc),
     messages |-> messages]

\* SubmitFeed, with the fault that a failed submission is tried a second time (C9)
SubmitFeedRetry(call, outcome) ==
    IF outcome.raises
    THEN [call EXCEPT !.submits = @ + 2, !.raised = "submit_error"]
    ELSE [call EXCEPT !.submits = @ + 1, !.response = outcome.parsed]

\* feeds_api.submit_feed(...): one call; it raises or answers
SubmitFeed(call, outcome) ==
    IF outcome.raises
    THEN [call EXCEPT !.submits = @ + 1, !.raised = "submit_error"]
    ELSE [call EXCEPT !.submits = @ + 1, !.response = outcome.parsed]

----------------------------------------------------------------------------
(* Product.export_to_amazon *)

\* ProductMessage, with the fault that the message carries the last identifier (C6)
ProductMessageLastIdentifier(p) ==
    LET ids == AmazonIdentifiers(p)
    IN  [MessageID |-> p, OperationType |-> "Update", SKU |-> products[p].code,
         Type |-> ids[Len(ids)].product_id_type, Value |-> ids[Len(ids)].product_id,
         ProductType |-> "Misc_Other"]

\* E.Message(E.MessageID(str(product.id)), ..., E.StandardProductID(
\*     E.Type(product.amazon_identifiers[0].product_id_type),
\*     E.Value(product.amazon_identifiers[0].product_id)), ...)
ProductMessage(p) ==
    LET ids == AmazonIdentifiers(p)
    IN  [MessageID |-> p, OperationType |-> "Update", SKU |-> products[p].code,
         Type |-> ids[1].product_id_type, Value |-> ids[1].product_id,
         ProductType |-> "Misc_Other"]

\* ProductFeed, with the fault that a product without code or identifiers is
\* left out of the feed (C1)
RECURSIVE ProductFeedSkipInvalid(_, _, _)
ProductFeedSkipInvalid(plist, i, products_xml) ==
    IF i > Len(plist)
    THEN [raised |-> "none", culprit |-> 0, messages |-> products_xml]
    ELSE IF products[plist[i]].code = "" \/ AmazonIdentifiers(plist[i]) = <<>>
         THEN ProductFeedSkipInvalid(plist, i + 1, products_xml)
         ELSE ProductFeedSkipInvalid(plist, i + 1,
                                     Append(products_xml, ProductMessage(plist[i])))

RECURSIVE ProductFeed(_, _, _)
\* for product in products: validate, then products_xml.append(E.Message(...))
ProductFeed(plist, i, products_xml) ==
    IF i > Len(plist)
    THEN [raised |-> "none", culprit |-> 0, messages |-> products_xml]
    ELSE IF products[plist[i]].code = ""
         THEN [raised |-> "missing_product_code", culprit |-> plist[i],
               messages |-> <<>>]
         ELSE IF AmazonIdentifiers(plist[i]) = <<>>
              THEN [raised |-> "missing_amazon_product_identifiers",
                    culprit |-> plist[i], messages |-> <<>>]
              ELSE ProductFeed(plist, i + 1,
                               Append(products_xml, ProductMessage(plist[i])))

\* the values of the write: [{'product': product.id, 'account': mws_account.id}
\*                           for product in products]
LinkValues(plist, acc) == [i \in 1..Len(plist) |-> [product |-> plist[i], account |-> acc]]

RECURSIVE One2ManyCreate(_, _, _)
\* cls.write(records, {'mws_accounts': [('create', vlist)]}): the One2Many
\* field hands the whole vlist to every record written, each copy with the
\* reverse field 'product' set to that record
One2ManyCreate(ids, i, vlist) ==
    IF i > Len(ids) THEN <<>>
    ELSE [k \in 1..Len(vlist) |-> [vlist[k] EXCEPT !.product = ids[i]]]
         \o One2ManyCreate(ids, i + 1, vlist)

\* Product.export_to_amazon(products) with the account in context
ExportToAmazon(plist, acc, outcome) ==
    LET call == [Idle EXCEPT !.op = "export_to_amazon", !.account = acc,
                             !.plist = plist, !.before = Before]
        built == ProductFeed(plist, 1, <<>>)
        sent == SubmitFeed([call EXCEPT !.feed =
                    Envelope(acc, "Product", "_POST_PRODUCT_DATA_", built.messages)],
                    outcome)
        written == MwsAccountCreate(One2ManyCreate(plist, 1, LinkValues(plist, acc)))
    IN  IF built.raised # "none"
        THEN [last |-> [call EXCEPT !.raised = built.raised,
                                    !.culprit = built.culprit],
              links |-> links]
        ELSE IF sent.raised # "none"
             THEN [last |-> sent, links |-> links]
             ELSE IF written.raised # "none"
                  THEN [last |-> [sent EXCEPT !.raised = written.raised],
                        links |-> links]
                  ELSE [last |-> sent, links |-> written.links]

----------------------------------------------------------------------------
(* Product.export_pricing_to_amazon *)

\* E.Message(E.MessageID(str(product.id)), E.OperationType('Update'),
\*   E.Price(E.SKU(product.code), E.StandardPrice(str(product.template.list_price),
\*           currency=mws_account.company.currency.code)))
PriceMessage(p, acc) ==
    [MessageID |-> p, OperationType |-> "Update", SKU |-> products[p].code,
     StandardPrice |-> DecimalStr(products[p].list_price),
     currency |-> CurrencyOf(acc)]

\* LinkedTo, with the fault that a link to any account counts (C4)
LinkedToAny(p, acc) == LinkedAccounts(p) # {}

\* mws_account in [acc.account for acc in product.mws_accounts]
LinkedTo(p, acc) == acc \in LinkedAccounts(p)

RECURSIVE PricingFeed(_, _, _)
\* for product in products: if linked: pricing_xml.append(E.Message(...))
PricingFeed(plist, i, acc) ==
    IF i > Len(plist) THEN <<>>
    ELSE IF LinkedTo(plist[i], acc)
         THEN <<PriceMessage(plist[i], acc)>> \o PricingFeed(plist, i + 1, acc)
         ELSE PricingFeed(plist, i + 1, acc)

\* ExportPricingToAmazon, with the fault that the price export writes the
\* links as the catalog export does (C10)
ExportPricingToAmazonWritesLinks(plist, acc, outcome) ==
    LET sent == SubmitFeed([Idle EXCEPT !.op = "export_pricing_to_amazon",
                                        !.account = acc, !.plist = plist,
                                        !.before = Before,
                                        !.feed = Envelope(acc, "Price",
                                                    "_POST_PRODUCT_PRICING_DATA_",
                                                    PricingFeed(plist, 1, acc))],
                           outcome)
    IN  [last |-> sent,
         links |-> MwsAccountCreate(One2ManyCreate(plist, 1,
                                                   LinkValues(plist, acc))).links]

\* Product.export_pricing_to_amazon(products) with the account in context
ExportPricingToAmazon(plist, acc, outcome) ==
    [last |-> SubmitFeed([Idle EXCEPT !.op = "export_pricing_to_amazon",
                                      !.account = acc, !.plist = plist,
                                      !.before = Before,
                                      !.feed = Envelope(acc, "Price",
                                                  "_POST_PRODUCT_PRICING_DATA_",
                                                  PricingFeed(plist, 1, acc))],
                         outcome),
     links |-> links]

----------------------------------------------------------------------------
(* Product.export_inventory_to_amazon *)

\* E.FulfillmentLatency('7')
FulfillmentLatency == 7

\* E.Message(E.MessageID(str(product.id)), E.OperationType('Update'),
\*   E.Inventory(E.SKU(product.code), E.Quantity(str(int(quantity))),
\*               E.FulfillmentLatency('7')))
InventoryMessage(p, quantity) ==
    [MessageID |-> p, OperationType |-> "Update", SKU |-> products[p].code,
     Quantity |-> IntOf(quantity), FulfillmentLatency |-> FulfillmentLatency]

\* SkipQuantity, with the fault that a product is skipped when int(quantity)
\* is zero (C5)
SkipWholeZero(quantity) == IntOf(quantity) = 0

\* if not quantity: continue
SkipQuantity(quantity) == quantity = 0

RECURSIVE InventoryFeed(_, _, _, _)
\* for product in products: quantity = product.template.quantity over the
\* storage locations; skip when zero; append a message when linked.
\* qty[i] is the quantity the stock module computes for the i-th product.
InventoryFeed(plist, i, acc, qty) ==
    IF i > Len(plist) THEN <<>>
    ELSE IF SkipQuantity(qty[i])
         THEN InventoryFeed(plist, i + 1, acc, qty)
         ELSE IF LinkedTo(plist[i], acc)
              THEN <<InventoryMessage(plist[i], qty[i])>>
                   \o InventoryFeed(plist, i + 1, acc, qty)
              ELSE InventoryFeed(plist, i + 1, acc, qty)

\* ExportInventoryToAmazon, with the fault that an envelope without messages
\* is not submitted (C12)
ExportInventorySkipsEmptyFeed(plist, acc, qty, outcome) ==
    LET call == [Idle EXCEPT !.op = "export_inventory_to_amazon",
                             !.account = acc, !.plist = plist,
                             !.qty = qty, !.before = Before,
                             !.feed = Envelope(acc, "Inventory",
                                         "_POST_INVENTORY_AVAILABILITY_DATA_",
                                         InventoryFeed(plist, 1, acc, qty))]
    IN  [last |-> IF call.feed.messages = <<>> THEN call
                  ELSE SubmitFeed(call, outcome),
         links |-> links]

\* Product.export_inventory_to_amazon(products) with the account in context
ExportInventoryToAmazon(plist, acc, qty, outcome) ==
    [last |-> SubmitFeed([Idle EXCEPT !.op = "export_inventory_to_amazon",
                                      !.account = acc, !.plist = plist,
                                      !.qty = qty, !.before = Before,
                                      !.feed = Envelope(acc, "Inventory",
                                                  "_POST_INVENTORY_AVAILABILITY_DATA_",
                                                  InventoryFeed(plist, 1, acc, qty))],
                         outcome),
     links |-> links]

----------------------------------------------------------------------------
(* Product.validate, the import by seller SKU *)

\* check_amazon_code raises for product p of the table prods:
\* self.amazon_identifiers and self.search([('code', '=', self.code),
\*                                          ('id', '!=', self.id)])
CheckAmazonCode(prods, has_identifiers, p) ==
    has_identifiers /\ \E q \in 1..Len(prods) : q # p /\ prods[q].code = prods[p].code

\* the shapes of product_data['Products'] handed back by the marketplace
\* client, as the names of the children of the Products element: the shape
\* of the marketplace's answer (one Product child), and a shape that has
\* both children create_using_amazon_data reads
ResponseShapes == {{"Product"}, {"Product", "Products"}}

\* api.get_matching_product_for_id(marketplace_id, 'SellerSKU', [sku]).parsed:
\* the Id attribute echoes the SKU asked for
ProductData(sku, shape, asin) == [Id |-> sku, Products |-> shape, ASIN |-> asin]

\* extract_product_values_from_amazon_data plus the 'products' create values
ImportedProduct(product_data, acc) ==
    [code |-> product_data.Id, list_price |-> PlaceholderPrice,
     cost_price |-> PlaceholderPrice, default_uom |-> DefaultUomOf(acc)]

\* Product.create_using_amazon_data(product_data) with the account in context
CreateUsingAmazonData(call, product_data, acc) ==
    LET p == Len(products) + 1
        prods == Append(products, ImportedProduct(product_data, acc))
        idents == Append(identifiers,
                         [product |-> p, product_id_type |-> "ASIN",
                          product_id |-> product_data.ASIN])
        written == MwsAccountCreate(<<[product |-> p, account |-> acc]>>)
        unchanged == [products |-> products, identifiers |-> identifiers,
                      links |-> links, last |-> call]
    IN  IF "Products" \notin product_data.Products
        THEN \* product_data['Products']['Products']['AttributeSets']
             [unchanged EXCEPT !.last = [call EXCEPT !.raised = "KeyError"]]
        ELSE IF "Product" \notin product_data.Products
        THEN \* product_data['Products']['Product']['Identifiers']
             [unchanged EXCEPT !.last = [call EXCEPT !.raised = "KeyError"]]
        ELSE IF CheckAmazonCode(prods, TRUE, p)
        THEN [unchanged EXCEPT !.last = [call EXCEPT !.raised = "invalid_amazon_product"]]
        ELSE IF ~IdentifierUnique(idents) \/ written.raised # "none"
        THEN [unchanged EXCEPT !.last = [call EXCEPT !.raised = "IntegrityError"]]
        ELSE [products |-> prods, identifiers |-> idents, links |-> written.links,
              last |-> [call EXCEPT !.product = p]]

\* Product.find_or_create_using_amazon_sku(sku) with the account in context
FindOrCreateUsingAmazonSku(sku, acc, shape, asin) ==
    LET call == [Idle EXCEPT !.op = "find_or_create_using_amazon_sku",
                             !.account = acc, !.sku = sku, !.before = Before]
        found == SearchByCode(sku)
    IN  IF found # <<>>
        THEN [products |-> products, identifiers |-> identifiers, links |-> links,
              last |-> [call EXCEPT !.product = found[1]]]
        ELSE CreateUsingAmazonData([call EXCEPT !.lookups = @ + 1],
                                   ProductData(sku, shape, asin), acc)

----------------------------------------------------------------------------
(* The wizards *)

\* no wizard session: the last one, if any, has reached end and its data is
\* discarded
Closed == [kind |-> "none", state |-> "end", active_id |-> "",
           products |-> <<>>, response |-> NoResponse, shown |-> NoResponse]

WizardKinds == {"catalog", "pricing", "inventory"}

\* DefaultDone, with the fault that the done view shows the submission id as
\* status (C7)
DefaultDoneStatusFromId(response) ==
    [status |-> response.submission_id, submission_id |-> response.submission_id]

\* default_done: the fields of the done view, read from the response in context
DefaultDone(response) ==
    [status |-> response.status, submission_id |-> response.submission_id]

\* a wizard session is open; the requests of a session are served without
\* other requests in between
WizardBusy == wizard.state \in {"start", "export_", "done"}

\* no request is being served: the outcome of the last one has been handed
\* to its caller
Ready == last.op = "none"

----------------------------------------------------------------------------
(* Inputs *)

\* product lists: distinct records of the store, in any order
ProductLists ==
    {s \in SeqsUpTo(ProductIds, MaxList) : NoDuplicates(s)}

\* batches of Account-Link creation values
LinkBatches ==
    SeqsUpTo([product : ProductIds, account : Accounts], MaxList)

\* the identifiers a new product is created with
IdentifierLists ==
    {s \in SeqsUpTo(HostIdents, 2) : NoDuplicates(s)}

----------------------------------------------------------------------------
(* Initial state and actions *)

Init ==
    /\ products = <<>>
    /\ identifiers = <<>>
    /\ links = EmptyBag
    /\ last = Idle
    /\ wizard = Closed

\* the host creates a product (with its identifiers) and validates it
ProductCreate(code, idents) ==
    LET p == Len(products) + 1
        prods == Append(products,
                        [code |-> code, list_price |-> HostListPrice,
                         cost_price |-> HostCostPrice, default_uom |-> "unit"])
        table == identifiers
                 \o [k \in 1..Len(idents) |->
                        [product |-> p,
                         product_id_type |-> idents[k].product_id_type,
                         product_id |-> idents[k].product_id]]
        call == [Idle EXCEPT !.op = "create", !.sku = code, !.vlist = idents,
                             !.before = Before]
    IN  /\ Ready /\ ~WizardBusy
        /\ Len(products) < MaxProducts
        /\ IF CheckAmazonCode(prods, idents # <<>>, p)
           THEN /\ last' = [call EXCEPT !.raised = "invalid_amazon_product"]
                /\ UNCHANGED <<products, identifiers>>
           ELSE IF ~IdentifierUnique(table)
           THEN /\ last' = [call EXCEPT !.raised = "IntegrityError"]
                /\ UNCHANGED <<products, identifiers>>
           ELSE /\ last' = [call EXCEPT !.product = p]
                /\ products' = prods
                /\ identifiers' = table
        /\ UNCHANGED <<links, wizard>>

\* ProductMwsAccount.create called with a batch of values
LinkCreate(vlist) ==
    LET written == MwsAccountCreate(vlist)
    IN  /\ Ready /\ ~WizardBusy
        /\ links' = written.links
        /\ last' = [Idle EXCEPT !.op = "mws_account_create", !.vlist = vlist,
                                !.raised = written.raised, !.before = Before]
        /\ UNCHANGED <<products, identifiers, wizard>>

CatalogExport(plist, acc, outcome) ==
    LET done == ExportToAmazon(plist, acc, outcome)
    IN  /\ Ready /\ ~WizardBusy
        /\ links' = done.links
        /\ last' = done.last
        /\ UNCHANGED <<products, identifiers, wizard>>

PricingExport(plist, acc, outcome) ==
    LET done == ExportPricingToAmazon(plist, acc, outcome)
    IN  /\ Ready /\ ~WizardBusy
        /\ links' = done.links
        /\ last' = done.last
        /\ UNCHANGED <<products, identifiers, wizard>>

InventoryExport(plist, acc, qty, outcome) ==
    LET done == ExportInventoryToAmazon(plist, acc, qty, outcome)
    IN  /\ Ready /\ ~WizardBusy
        /\ links' = done.links
        /\ last' = done.last
        /\ UNCHANGED <<products, identifiers, wizard>>

Import(sku, acc, shape, asin) ==
    LET done == FindOrCreateUsingAmazonSku(sku, acc, shape, asin)
    IN  /\ Ready /\ ~WizardBusy
        /\ SearchByCode(sku) # <<>> \/ Len(products) < MaxProducts
        /\ products' = done.products
        /\ identifiers' = done.identifiers
        /\ links' = done.links
        /\ last' = done.last
        /\ UNCHANGED wizard

\* the user opens one of the three wizards on an account (the active record)
WizardOpen(kind, acc) ==
    /\ Ready /\ ~WizardBusy
    /\ wizard' = [Closed EXCEPT !.kind = kind, !.state = "start", !.active_id = acc]
    /\ UNCHANGED <<products, identifiers, links, last>>

\* Button('Cancel', 'end')
WizardCancel ==
    /\ Ready /\ wizard.state = "start"
    /\ wizard' = Closed
    /\ UNCHANGED <<products, identifiers, links, last>>

\* Button('Continue', 'export_') with the products selected in the start view
WizardContinue(plist) ==
    /\ Ready /\ wizard.state = "start"
    /\ wizard' = [wizard EXCEPT !.state = "export_", !.products = plist]
    /\ UNCHANGED <<products, identifiers, links, last>>

\* transition_export_
TransitionExport(qty, outcome) ==
    LET acc == wizard.active_id
        plist == wizard.products
        done == IF wizard.kind = "catalog"
                THEN ExportToAmazon(plist, acc, outcome)
                ELSE IF wizard.kind = "pricing"
                THEN ExportPricingToAmazon(plist, acc, outcome)
                ELSE ExportInventoryToAmazon(plist, acc, qty, outcome)
    IN  /\ Ready /\ wizard.state = "export_"
        /\ IF plist = <<>>
           THEN /\ wizard' = Closed
                /\ UNCHANGED <<links, last>>
           ELSE /\ links' = done.links
                /\ last' = done.last
                /\ IF done.last.raised # "none"
                   THEN \* the error goes to the user; the start view stays
                        wizard' = [wizard EXCEPT !.state = "start"]
                   ELSE wizard' = [wizard EXCEPT
                                      !.state = "done",
                                      !.response = done.last.response,
                                      !.shown = DefaultDone(done.last.response)]
        /\ UNCHANGED <<products, identifiers>>

\* Button('OK', 'end')
WizardOk ==
    /\ Ready /\ wizard.state = "done"
    /\ wizard' = Closed
    /\ UNCHANGED <<products, identifiers, links, last>>

\* the request ends: its outcome (the value returned or the error raised)
\* goes to the caller
Return ==
    /\ ~Ready
    /\ last' = Idle
    /\ UNCHANGED <<products, identifiers, links, wizard>>

Quantity(plist) == [1..Len(plist) -> Quantities]

\* the operations of the models (Product, ProductMwsAccount), called one
\* after the other
Next ==
    \/ \E code \in HostCodes, idents \in IdentifierLists : ProductCreate(code, idents)
    \/ \E vlist \in LinkBatches : LinkCreate(vlist)
    \/ \E plist \in ProductLists, acc \in Accounts, outcome \in SubmitOutcomes :
          CatalogExport(plist, acc, outcome)
    \/ \E plist \in ProductLists, acc \in Accounts, outcome \in SubmitOutcomes :
          PricingExport(plist, acc, outcome)
    \/ \E plist \in ProductLists, acc \in Accounts, outcome \in SubmitOutcomes :
          \E qty \in Quantity(plist) : InventoryExport(plist, acc, qty, outcome)
    \/ \E sku \in Skus, acc \in Accounts, shape \in ResponseShapes, asin \in Asins :
          Import(sku, acc, shape, asin)
    \/ Return

Spec == Init /\ [][Next]_vars

\* the interactive flow: products are created, and exported through the
\* three wizards
WizardNext ==
    \/ \E code \in HostCodes, idents \in IdentifierLists : ProductCreate(code, idents)
    \/ \E kind \in WizardKinds, acc \in Accounts : WizardOpen(kind, acc)
    \/ WizardCancel
    \/ \E plist \in ProductLists : WizardContinue(plist)
    \/ \E outcome \in SubmitOutcomes :
          \E qty \in Quantity(wizard.products) : TransitionExport(qty, outcome)
    \/ WizardOk
    \/ Return

WizardSpec == Init /\ [][WizardNext]_vars

----------------------------------------------------------------------------
(* Properties *)

\* product p lacks a code or has no Amazon identifier
Invalid(p) == products[p].code = "" \/ AmazonIdentifiers(p) = <<>>

HasInvalid(plist) == \E i \in 1..Len(plist) : Invalid(plist[i])

\* the k-th smallest member of a set of indices
Nth(idx, k) == CHOOSE i \in idx : Cardinality({j \in idx : j < i}) = k - 1

\* (product, account) has a row in the Account-Link table
Linked(table, p, acc) == [product |-> p, account |-> acc] \in BagToSet(table)

\* C1: a catalog export of a list that holds a product without code or
\* without identifier raises the validation error of such a product of the
\* list, calls submit_feed not once and leaves the Account-Link table as it
\* was, so that no product of the list, valid or not, gets a link.
C1_InvalidProductAborts ==
    (last.op = "export_to_amazon" /\ HasInvalid(last.plist)) =>
        /\ last.raised \in {"missing_product_code",
                            "missing_amazon_product_identifiers"}
        /\ \E i \in 1..Len(last.plist) : last.culprit = last.plist[i]
        /\ last.raised = "missing_product_code" => products[last.culprit].code = ""
        /\ last.raised = "missing_amazon_product_identifiers" =>
               AmazonIdentifiers(last.culprit) = <<>>
        /\ last.submits = 0
        /\ links = last.before.links

\* a two-product export, the valid product first and not yet linked, stopped
\* by the missing code of the second
C1_Witness ==
    /\ last.op = "export_to_amazon"
    /\ Len(last.plist) = 2
    /\ ~Invalid(last.plist[1])
    /\ ~Linked(links, last.plist[1], last.account)
    /\ last.raised = "missing_product_code"
    /\ last.culprit = last.plist[2]

\* C2: ProductMwsAccount.create of a batch (of distinct values) raises
\* nothing, leaves the rows that were there, adds exactly the values whose
\* pair had no row, and every pair of the batch ends with one row.
C2_CreateIdempotent ==
    (last.op = "mws_account_create" /\ NoDuplicates(last.vlist)) =>
        /\ last.raised = "none"
        /\ \A i \in 1..Len(last.vlist) :
               LinkCount(links, last.vlist[i].product, last.vlist[i].account) = 1
        /\ links = last.before.links
                   (+) SetToBag({last.vlist[i] : i \in
                          {j \in 1..Len(last.vlist) :
                              ~Linked(last.before.links, last.vlist[j].product,
                                      last.vlist[j].account)}})

\* C3: a catalog export of a non-empty list of products that all have a code
\* and an identifier, whose submission succeeded, raises nothing and leaves
\* every exported product with one link to the account in context.
C3_ExportLinksEveryProduct ==
    (/\ last.op = "export_to_amazon"
     /\ last.plist # <<>>
     /\ ~HasInvalid(last.plist)
     /\ last.submits = 1
     /\ last.response \in Responses) =>
        /\ last.raised = "none"
        /\ \A i \in 1..Len(last.plist) :
               LinkCount(links, last.plist[i], last.account) = 1

\* C4: the price feed holds one message per input product that is linked to
\* the account in context, in input order, with the product's code as SKU,
\* its list price as text and the currency code of the account's company;
\* the other products give no message, and no error of their own.
C4_PriceFeedOfLinkedProducts ==
    last.op = "export_pricing_to_amazon" =>
        LET plist == last.plist
            msgs == last.feed.messages
            idx == {i \in 1..Len(plist) : Linked(links, plist[i], last.account)}
        IN  /\ Len(msgs) = Cardinality(idx)
            /\ \A k \in 1..Len(msgs) :
                   LET p == plist[Nth(idx, k)]
                   IN  /\ msgs[k].MessageID = p
                       /\ msgs[k].SKU = products[p].code
                       /\ msgs[k].currency = CurrencyOf(last.account)
                       /\ msgs[k].StandardPrice.int * Pow10(msgs[k].StandardPrice.places)
                              + msgs[k].StandardPrice.frac
                          = products[p].list_price.digits
                       /\ msgs[k].StandardPrice.places = products[p].list_price.exp
                       /\ msgs[k].StandardPrice.frac < Pow10(msgs[k].StandardPrice.places)
            /\ last.feed.MessageType = "Price"
            /\ last.submits = 1
            /\ last.raised \in {"none", "submit_error"}

\* a price feed of two products: the first, linked only to the other
\* account, gives no message; the second reads "9.99" in "USD"
C4_Witness ==
    /\ last.op = "export_pricing_to_amazon"
    /\ last.account = "acc1"
    /\ Len(last.plist) = 2
    /\ LinkedAccounts(last.plist[1]) = {"acc2"}
    /\ Len(last.feed.messages) = 1
    /\ last.feed.messages[1].MessageID = last.plist[2]
    /\ last.feed.messages[1].StandardPrice = [int |-> 9, frac |-> 99, places |-> 2]
    /\ last.feed.messages[1].currency = "USD"
    /\ last.raised = "none"

\* C5: the inventory feed holds a message for an input product exactly when
\* the product is linked to the account in context and its quantity is not
\* zero, in input order; the others are skipped without error; every message
\* has fulfillment latency 7.
C5_InventoryFeedOfStockedLinkedProducts ==
    last.op = "export_inventory_to_amazon" =>
        LET plist == last.plist
            msgs == last.feed.messages
            idx == {i \in 1..Len(plist) :
                       Linked(links, plist[i], last.account) /\ last.qty[i] # 0}
        IN  /\ Len(msgs) = Cardinality(idx)
            /\ \A k \in 1..Len(msgs) :
                   /\ msgs[k].MessageID = plist[Nth(idx, k)]
                   /\ msgs[k].SKU = products[plist[Nth(idx, k)]].code
                   /\ msgs[k].FulfillmentLatency = 7
            /\ last.feed.MessageType = "Inventory"
            /\ last.raised \in {"none", "submit_error"}

\* an inventory feed of two linked products: the one with quantity zero is
\* skipped, the one with quantity 0.5 gets a message
C5_Witness ==
    /\ last.op = "export_inventory_to_amazon"
    /\ Len(last.plist) = 2
    /\ \A i \in 1..2 : Linked(links, last.plist[i], last.account)
    /\ last.qty = <<0, 1>>
    /\ Len(last.feed.messages) = 1
    /\ last.feed.messages[1].MessageID = last.plist[2]
    /\ last.raised = "none"

\* C6: the product feed that is submitted holds one message per input
\* product, in input order, and each message carries the type and value of
\* the product's first identifier and of no later one.
C6_ProductFeedFirstIdentifier ==
    (last.op = "export_to_amazon" /\ last.submits = 1) =>
        LET plist == last.plist
            msgs == last.feed.messages
        IN  /\ Len(msgs) = Len(plist)
            /\ last.feed.MessageType = "Product"
            /\ \A i \in 1..Len(plist) :
                   LET ids == AmazonIdentifiers(plist[i])
                   IN  /\ msgs[i].MessageID = plist[i]
                       /\ msgs[i].SKU = products[plist[i]].code
                       /\ msgs[i].Type = ids[1].product_id_type
                       /\ msgs[i].Value = ids[1].product_id
                       /\ \A j \in 2..Len(ids) :
                              <<msgs[i].Type, msgs[i].Value>>
                              # <<ids[j].product_id_type, ids[j].product_id>>

\* a submitted product feed of two products, the second with two identifiers
C6_Witness ==
    /\ last.op = "export_to_amazon"
    /\ last.submits = 1
    /\ Len(last.plist) = 2
    /\ Len(AmazonIdentifiers(last.plist[1])) = 1
    /\ Len(AmazonIdentifiers(last.plist[2])) = 2
    /\ Len(last.feed.messages) = 2

\* the export operation that matches a wizard
ExportOperationOf(kind) ==
    IF kind = "catalog" THEN "export_to_amazon"
    ELSE IF kind = "pricing" THEN "export_pricing_to_amazon"
    ELSE "export_inventory_to_amazon"

WizardStep ==
    /\ (wizard.state = "start" /\ wizard' # wizard) =>
           /\ wizard'.state \in {"end", "export_"}
           /\ last' = last
           /\ links' = links
    /\ (wizard.state = "export_" /\ wizard' # wizard) =>
           IF wizard.products = <<>>
           THEN /\ wizard'.state = "end"
                /\ last' = Idle
                /\ links' = links
           ELSE /\ last'.op = ExportOperationOf(wizard.kind)
                /\ last'.account = wizard.active_id
                /\ last'.plist = wizard.products
                /\ last'.submits <= 1
                /\ IF last'.raised = "none"
                   THEN /\ wizard'.state = "done"
                        /\ last'.response \in Responses
                        /\ wizard'.shown.status = last'.response.status
                        /\ wizard'.shown.submission_id = last'.response.submission_id
                   ELSE wizard'.state # "done"
    /\ (wizard.state = "done" /\ wizard' # wizard) => wizard'.state = "end"
    /\ (wizard'.state = "done" /\ wizard.state # "done") =>
           /\ wizard.state = "export_"
           /\ last'.raised = "none"
           /\ last'.submits = 1

\* C7: every step of a wizard session follows the one state machine: start
\* moves to end (Cancel) or to export_ (Continue) and calls nothing; export_
\* with no product selected moves to end and calls nothing; export_ with
\* products calls the wizard's own export operation, once, on the selected
\* products with the active account in context, and moves to done when the
\* operation returns, showing the status and submission id of the response
\* returned; done is entered in no other way and moves to end only.
C7_WizardStateMachine == [][WizardStep]_vars

\* the inventory wizard on its done view, showing the second response
C7_Witness ==
    /\ wizard.state = "done"
    /\ wizard.kind = "inventory"
    /\ last.op = "export_inventory_to_amazon"
    /\ wizard.shown = [status |-> "_IN_PROGRESS_", submission_id |-> "F2"]

\* C8: find_or_create_using_amazon_sku returns a product whose code is the
\* SKU: the first product with that code when there was one, with no call
\* to the marketplace and nothing created; otherwise, after one call to the
\* marketplace, one new product with that code, one ASIN identifier, list
\* and cost price 0.01 and the account's default unit.
C8_FindOrCreateReturnsProduct ==
    last.op = "find_or_create_using_amazon_sku" =>
        LET old == last.before.products
            found == {i \in 1..Len(old) : old[i].code = last.sku}
        IN  /\ last.raised = "none"
            /\ last.product \in ProductIds
            /\ products[last.product].code = last.sku
            /\ found # {} =>
                   /\ last.product = Nth(found, 1)
                   /\ last.lookups = 0
                   /\ products = old
                   /\ identifiers = last.before.identifiers
                   /\ links = last.before.links
            /\ found = {} =>
                   /\ last.lookups = 1
                   /\ Len(products) = Len(old) + 1
                   /\ last.product = Len(products)
                   /\ SubSeq(products, 1, Len(old)) = old
                   /\ products[last.product].list_price = PlaceholderPrice
                   /\ products[last.product].cost_price = PlaceholderPrice
                   /\ products[last.product].default_uom = DefaultUomOf(last.account)
                   /\ Len(AmazonIdentifiers(last.product)) = 1
                   /\ AmazonIdentifiers(last.product)[1].product_id_type = "ASIN"

ExportOperations ==
    {"export_to_amazon", "export_pricing_to_amazon", "export_inventory_to_amazon"}

\* C9: an export operation calls submit_feed at most once; when that call
\* fails the operation raises the vendor's error and, in the catalog flow as
\* in the others, the Account-Link table is as it was.
C9_SubmitFailurePropagates ==
    last.op \in ExportOperations =>
        /\ last.submits <= 1
        /\ (last.submits = 1 /\ last.response = NoResponse) =>
               /\ last.raised = "submit_error"
               /\ links = last.before.links

\* a catalog export of one valid product, not linked to the account, whose
\* submission failed
C9_Witness ==
    /\ last.op = "export_to_amazon"
    /\ Len(last.plist) = 1
    /\ ~Invalid(last.plist[1])
    /\ last.submits = 1
    /\ last.raised = "submit_error"
    /\ ~Linked(links, last.plist[1], last.account)

ModuleOperations == ExportOperations \cup {"find_or_create_using_amazon_sku"}

IsPrefix(s, t) == Len(s) <= Len(t) /\ SubSeq(t, 1, Len(s)) = s

\* the Identifier and Account-Link records the operation found are still
\* there, as they were
KeepsRecords ==
    /\ IsPrefix(last.before.identifiers, identifiers)
    /\ last.before.links \sqsubseteq links

LinkWriters ==
    {"export_to_amazon", "find_or_create_using_amazon_sku", "mws_account_create"}

\* C11: in every state reached by catalog exports, imports and direct
\* creations of Account-Link records, the Account-Link table holds at most
\* one record for each (account, product) pair.
C11_OneLinkPerAccountProduct ==
    \A p \in ProductIds, acc \in Accounts : LinkCount(links, p, acc) <= 1

\* a creation of Account-Link records that was handed a pair already in the
\* table and was stopped by the constraint, the table keeping its records
C11_Witness ==
    /\ last.op \in LinkWriters
    /\ last.raised = "IntegrityError"
    /\ links = last.before.links
    /\ \E p \in ProductIds, acc \in Accounts : LinkCount(links, p, acc) = 1

FeedOnlyOperations == {"export_pricing_to_amazon", "export_inventory_to_amazon"}

\* C12: every call of the price export and of the inventory export calls
\* submit_feed exactly once, whatever the number of messages of the envelope,
\* zero included (no product linked, or every product with quantity zero).
C12_OneSubmissionPerFeedExport ==
    last.op \in FeedOnlyOperations => last.submits = 1

\* an inventory export of a product linked to the account whose quantity is
\* zero: the envelope has no message and was submitted
C12_Witness ==
    /\ last.op = "export_inventory_to_amazon"
    /\ Len(last.plist) = 1
    /\ Linked(links, last.plist[1], last.account)
    /\ last.qty[1] = 0
    /\ last.feed.messages = <<>>
    /\ last.feed.feed_type = "_POST_INVENTORY_AVAILABILITY_DATA_"
    /\ last.submits = 1
    /\ last.response # NoResponse

\* a product of the table other than p has the code
CodeTakenByOther(table, code, p) ==
    \E q \in 1..Len(table) : q # p /\ table[q].code = code

\* C13: validation of a product raises invalid_amazon_product exactly when
\* the product has an Amazon identifier and another product has its code;
\* and so, in every state reached by validated creations, no product that
\* has an Amazon identifier shares its code with a different product.
C13_AmazonCodeNotShared ==
    /\ last.op = "create" =>
           LET duplicate == /\ last.vlist # <<>>
                            /\ CodeTakenByOther(last.before.products, last.sku, 0)
           IN  /\ last.raised = "invalid_amazon_product" => duplicate
               /\ last.raised = "none" => ~duplicate
    /\ \A p \in ProductIds :
           AmazonIdentifiers(p) # <<>> =>
               ~CodeTakenByOther(products, products[p].code, p)

====
